---- MODULE Spec2Model ----
\* Authentication / session lifecycle of the Mogilev33 API: token codec,
\* token denylist with TTL, auth middleware, role middleware, the auth
\* routes and the admin-only resource routes.
EXTENDS Integers, Sequences, FiniteSets, TLC

\* ---------------------------------------------------------------- bounds
\* Days the model clock runs through.
MaxDay == 8
\* Refresh tokens handed out to clients.
MaxTokens == 2
\* Last day on which a register or login request arrives.
MaxLoginDay == 1

\* ------------------------------------------------------ program constants
\* expiresIn: "7d" of the refresh token, in days.
RefreshLifetime == 7
\* expiresIn: "15m" of the access token; on a clock of whole days it is
\* valid on the day of issue only.
AccessLifetime == 1
\* expires: "2d" of a denylist entry, in days.
Retention == 2
\* maxAge of the refreshToken cookie, 7 * 24 * 60 * 60 * 1000 ms, in days.
CookieMaxAge == 7

\* --------------------------------------------------------- small domains
Emails == {"a@x"}
Passwords == {"secret1", "secret2"}
SecretValues == {"", "k1"}
ReqIds == {"r1", "r2"}
Resources == {"protocols", "offers", "invitations"}
AdminOps == {"create", "edit", "delete", "getById", "upload", "editUpload"}
DocIds == {"d1"}
Titles == {"t1", "t2"}

\* An optional value (undefined | x) is the empty or the one-element sequence.
None == <<>>
Some(x) == <<x>>

\* ------------------------------------------------------------ token codec
\* A token string is represented by what it encodes.
Claims(id, email, role) == [_id |-> id, email |-> email, role |-> role]

NoClaims == Claims(0, "", "")

\* A signer that leaves the role out of the payload.
signJwtNoRole(payload, secret, expiresIn, t) ==
    [form |-> "jwt", claims |-> [payload EXCEPT !.role = ""], key |-> secret,
     iat |-> t, exp |-> t + expiresIn]

\* jwt.sign(payload, secret, {expiresIn}) at clock reading t.
signJwt(payload, secret, expiresIn, t) ==
    [form |-> "jwt", claims |-> payload, key |-> secret,
     iat |-> t, exp |-> t + expiresIn]

\* Strings a client can put in the cookie without the server's help.
EmptyToken == [form |-> "empty", claims |-> NoClaims, key |-> "",
               iat |-> 0, exp |-> 0]
ForgedToken == [form |-> "jwt", claims |-> Claims(1, "a@x", "admin"),
                key |-> "attacker", iat |-> 0, exp |-> 1000]

\* An error object: message, statusCode and status (0 = not set).
CustomError(message, statusCode) ==
    [message |-> message, statusCode |-> statusCode, status |-> 0, code |-> ""]
PlainError(message) ==
    [message |-> message, statusCode |-> 0, status |-> 0, code |-> ""]
MulterError(code) ==
    [message |-> "File too large", statusCode |-> 0, status |-> 0, code |-> code]

\* The payload jwt.verify hands back: the claims plus iat and exp.
Decoded(tok) ==
    [_id |-> tok.claims._id, email |-> tok.claims.email,
     role |-> tok.claims.role, iat |-> tok.iat, exp |-> tok.exp]

\* jwt.decode in place of jwt.verify: the payload of any well-formed token.
decodeJwt(tok, secret, t) ==
    IF tok.form # "jwt" THEN [err |-> Some(PlainError("jwt malformed")), decoded |-> None]
    ELSE [err |-> None, decoded |-> Some(Decoded(tok))]

\* A verifier that does not look at the expiry.
verifyJwtIgnoreExpiration(tok, secret, t) ==
    IF tok.form # "jwt" THEN [err |-> Some(PlainError("jwt malformed")), decoded |-> None]
    ELSE IF tok.key # secret THEN [err |-> Some(PlainError("invalid signature")), decoded |-> None]
    ELSE [err |-> None, decoded |-> Some(Decoded(tok))]

\* jwt.verify(token, secret) at clock reading t: the decoded payload or the
\* library's error.
verifyJwt(tok, secret, t) ==
    IF tok.form # "jwt" THEN [err |-> Some(PlainError("jwt malformed")), decoded |-> None]
    ELSE IF tok.key # secret THEN [err |-> Some(PlainError("invalid signature")), decoded |-> None]
    ELSE IF t >= tok.exp THEN [err |-> Some(PlainError("jwt expired")), decoded |-> None]
    ELSE [err |-> None, decoded |-> Some(Decoded(tok))]

\* -------------------------------------------------------------- the state
VARIABLES
    now,        \* the clock, in days
    env,        \* process.env: JWT_SECRET, JWT_REFRESH_SECRET ("" = unset)
    users,      \* the User collection
    denylist,   \* the InvalidToken collection
    store,      \* protocols, offers, invitations: docId -> title, per resource
    issued,     \* refresh tokens handed to clients in the cookie
    revoked,    \* history: refresh tokens whose logout has completed
    reqs        \* the requests in flight, per slot

vars == <<now, env, users, denylist, store, issued, revoked, reqs>>

\* A comparison that accepts every password.
compareAlways(pw, hash) == TRUE

\* password hashing of UserSchema.pre("save") and bcrypt.compare
Hash(pw) == <<"bcrypt", pw>>
compare(pw, hash) == hash = Hash(pw)

NoBody == [kind |-> "none", email |-> "", password |-> "", valid |-> FALSE,
           id |-> "", title |-> "", file |-> "none"]

NoRoute == [area |-> "none", op |-> "none"]

IdleReq ==
    [route |-> NoRoute, stage |-> 0, cookie |-> None, body |-> NoBody, pc |-> "idle",
     token |-> None, secret |-> "", user |-> None, isAuthenticated |-> FALSE,
     cleared |-> FALSE, nextErr |-> None, status |-> 0, resBody |-> None,
     setCookie |-> None, service |-> FALSE, log |-> <<>>,
     cookieOptions |-> None,
     cookies |-> TRUE, filePath |-> "", headersSent |-> FALSE, sent |-> 0, errBody |-> None, forwarded |-> None,
     listedAtLookup |-> FALSE, revokedAtStart |-> FALSE, follows |-> FALSE]

\* JavaScript truthiness of req.cookies?.refreshToken
Truthy(cookie) == cookie # None /\ cookie[1].form # "empty"

\* ---------------------------------------------------------- errorHandler
\* status = err.statusCode || err.status || 500
\* A handler that reads err.status before err.statusCode.
ErrorStatusPrefersStatus(err) ==
    IF err.code = "LIMIT_FILE_SIZE" THEN 413
    ELSE IF err.status # 0 THEN err.status
    ELSE IF err.statusCode # 0 THEN err.statusCode
    ELSE 500

\* let status = err.statusCode || err.status || 500, and 413 for multer's
\* LIMIT_FILE_SIZE (in this model only a MulterError has a code)
ErrorStatus(err) ==
    IF err.code = "LIMIT_FILE_SIZE" THEN 413
    ELSE IF err.statusCode # 0 THEN err.statusCode
    ELSE IF err.status # 0 THEN err.status
    ELSE 500

\* errorHandler(err, req, res, next): with the headers already sent the error
\* goes to next(err) and nothing is written; otherwise one JSON response
\* {message: createErrorMsg(err)} with the status.
errorHandler(q, err) ==
    IF q.headersSent
    THEN [q EXCEPT !.forwarded = Some(err), !.pc = "done"]
    ELSE [q EXCEPT !.status = ErrorStatus(err),
                   !.errBody = Some([message |-> <<"createErrorMsg", err>>]),
                   !.sent = @ + 1, !.headersSent = TRUE, !.pc = "done"]

\* next(err), or a throw caught by the router: the error reaches errorHandler,
\* which answers with the error's status.
PassError(q, err) ==
    errorHandler([q EXCEPT !.nextErr = Some(err),
                           !.log = Append(@, "next(err)")], err)

\* res.status(code).json(body) of a handler
Respond(q, code, body) ==
    [q EXCEPT !.status = code, !.resBody = Some(body), !.pc = "done"]

\* ------------------------------------------------------------ the routes
AuthRoute(op) == [area |-> "auth", op |-> op]

\* authController: the middlewares in front of each handler
authRoutes(op) ==
    IF op \in {"logout", "profile", "refresh"} THEN <<"authMiddleware">>
    ELSE <<>>

\* protocolController
protocolRoutes(op) ==
    IF op = "getAll" THEN <<>>
    ELSE IF op \in {"upload", "editUpload"}
         THEN <<"authMiddleware", "isAdmin", "upload">>
    ELSE <<"authMiddleware", "isAdmin">>

\* The offer routes with no middleware in front of the handlers.
offerRoutesOpen(op) == <<>>

\* offerController
offerRoutes(op) ==
    IF op = "getAll" THEN <<>>
    ELSE IF op \in {"upload", "editUpload"}
         THEN <<"authMiddleware", "isAdmin", "upload">>
    ELSE <<"authMiddleware", "isAdmin">>

\* inviteController
inviteRoutes(op) ==
    IF op = "getAll" THEN <<>>
    ELSE IF op \in {"upload", "editUpload"}
         THEN <<"authMiddleware", "isAdmin", "upload">>
    ELSE <<"authMiddleware", "isAdmin">>

\* routes.ts: /auth, /protocols, /offers, /invitations
Middlewares(route) ==
    CASE route.area = "auth" -> authRoutes(route.op)
      [] route.area = "protocols" -> protocolRoutes(route.op)
      [] route.area = "offers" -> offerRoutes(route.op)
      [] route.area = "invitations" -> inviteRoutes(route.op)
      [] OTHER -> <<>>

\* ------------------------------------------------------- auth middleware
\* Variants of the catch block: one clears the cookie whether or not the
\* request sent one, the other passes the error on and leaves the cookie.
AuthCatchAlwaysClears(q, err) ==
    PassError([q EXCEPT !.cleared = TRUE, !.log = Append(@, "clearCookie")], err)

AuthCatchKeepsCookie(q, err) ==
    PassError(q, err)

\* the catch block: clear the cookie when one was sent, then next(error).
\* It reads req.cookies.refreshToken without the ?. of the try block: on a
\* request without a cookies map the read throws a TypeError inside the catch
\* block, the promise of the middleware rejects and next is not called.
AuthCatch(q, err) ==
    IF ~q.cookies
    THEN [q EXCEPT !.pc = "done", !.log = Append(@, "reject TypeError")]
    ELSE LET c == IF Truthy(q.cookie)
                  THEN [q EXCEPT !.cleared = TRUE, !.log = Append(@, "clearCookie")]
                  ELSE q
         IN PassError(c, err)

\* entry up to the first await: read the cookie, start the denylist lookup
AuthEnter(q) ==
    LET token == q.cookie
    IN IF ~Truthy(token)
       THEN AuthCatch(q, CustomError("Missing token!", 401))
       ELSE [q EXCEPT !.token = token, !.pc = "findOne",
                      !.log = Append(@, "findOne")]

\* A lookup by the user the token names instead of by the token's string.
findOneByUser(token) ==
    IF \E d \in denylist : d.token.claims._id = token.claims._id
    THEN Some(CHOOSE d \in denylist : d.token.claims._id = token.claims._id)
    ELSE None

\* A lookup served from a copy of the collection that lags behind.
findOneStale(token) == None

\* InvalidToken.findOne({ token }): the first entry with that exact string
findOne(token) ==
    IF \E d \in denylist : d.token = token
    THEN Some(CHOOSE d \in denylist : d.token = token)
    ELSE None

\* Variants of the step after the lookup: one does not look at the entry
\* found, the other goes to the verifier without testing the secret.
AuthAfterFindOneIgnoresEntry(q, rejected, invalidToken) ==
    IF rejected THEN AuthCatch(q, PlainError("DB error"))
    ELSE LET secret == env.JWT_REFRESH_SECRET
         IN IF secret = ""
            THEN AuthCatch(q, CustomError("JWT refresh secret is not configured!", 500))
            ELSE [q EXCEPT !.secret = secret, !.pc = "verifyJwt",
                           !.log = Append(@, "verifyJwt")]

AuthAfterFindOneNoSecretTest(q, rejected, invalidToken) ==
    IF rejected THEN AuthCatch(q, PlainError("DB error"))
    ELSE IF invalidToken # None
         THEN AuthCatch(q, CustomError("Invalid token!", 403))
    ELSE [q EXCEPT !.secret = env.JWT_REFRESH_SECRET, !.pc = "verifyJwt",
                   !.log = Append(@, "verifyJwt")]

\* from the lookup's result up to the second await
AuthAfterFindOne(q, rejected, invalidToken) ==
    IF rejected THEN AuthCatch(q, PlainError("DB error"))
    ELSE IF invalidToken # None
         THEN AuthCatch(q, CustomError("Invalid token!", 403))
    ELSE LET secret == env.JWT_REFRESH_SECRET
         IN IF secret = ""
            THEN AuthCatch(q, CustomError("JWT refresh secret is not configured!", 500))
            ELSE [q EXCEPT !.secret = secret, !.pc = "verifyJwt",
                           !.log = Append(@, "verifyJwt")]

\* A variant of the last step that hands the token back in a fresh cookie.
AuthAfterVerifyResendsCookie(q, res) ==
    IF res.err # None THEN AuthCatch(q, res.err[1])
    ELSE [q EXCEPT !.user = res.decoded, !.isAuthenticated = TRUE,
                   !.setCookie = q.token, !.log = Append(@, "next")]

\* from the verifier's result to next()
AuthAfterVerify(q, res) ==
    IF res.err # None THEN AuthCatch(q, res.err[1])
    ELSE [q EXCEPT !.user = res.decoded, !.isAuthenticated = TRUE,
                   !.log = Append(@, "next")]

\* ------------------------------------------------------- role middleware
\* A variant of the role test that reads the role of the user in the store.
isAdminFromStore(user) ==
    user # None /\ \E u \in users : u._id = user[1]._id /\ u.role = "admin"

\* A variant of the role test that compares the role without regard to case.
isAdminAnyCase(user) ==
    user # None /\ user[1].role \in {"admin", "Admin", "ADMIN"}

\* req.user?.role !== "admin"
isAdmin(user) == user # None /\ user[1].role = "admin"

\* multer's upload.single("file"): the file filter and the size limit
upload(q) ==
    IF q.body.file = "big" THEN Some(MulterError("LIMIT_FILE_SIZE"))
    ELSE IF q.body.file = "other"
         THEN Some(CustomError("Only PDF files are allowed!", 400))
    ELSE None

\* ------------------------------------------- handlers, up to the service call
\* The part of a route handler that runs before it awaits its service.
HandlerEntry(q) ==
    LET await == [q EXCEPT !.pc = "handler", !.service = TRUE,
                           !.log = Append(@, "service")]
    IN CASE q.route.area = "auth" /\ q.route.op \in {"register", "login"} ->
              IF ~q.body.valid
              THEN PassError(q, CustomError("validation", 400))
              ELSE await
         [] q.route.area = "auth" /\ q.route.op = "logout" ->
              IF ~Truthy(q.cookie)
              THEN PassError(q, CustomError("No refresh token provided", 401))
              ELSE await
         [] q.route.area = "auth" /\ q.route.op = "profile" ->
              IF q.user = None
              THEN Respond(q, 401, [message |-> "Unauthorized"])
              ELSE await
         [] q.route.area = "auth" /\ q.route.op = "refresh" -> await
         [] q.route.area \in Resources /\ q.route.op = "getAll" -> await
         [] q.route.area \in Resources /\ q.route.op \in {"upload", "editUpload"} ->
              IF q.body.file = "none"
              THEN PassError(q, CustomError("File is required for upload!", 400))
              ELSE IF (q.route.op = "editUpload" /\ q.body.id \notin DocIds)
                      \/ ~q.body.valid
                   THEN PassError(q, CustomError("validation", 400))
              ELSE await
         [] q.route.area \in Resources /\ q.route.op \in {"delete", "getById"} ->
              IF q.body.id \notin DocIds
              THEN PassError(q, CustomError("validation", 400))
              ELSE await
         [] OTHER ->
              IF (q.route.op = "edit" /\ q.body.id \notin DocIds) \/ ~q.body.valid
              THEN PassError(q, CustomError("validation", 400))
              ELSE await

\* The router: run the middlewares of the route from position i on, until one
\* of them awaits or fails, then the handler.
RECURSIVE RunStages(_, _)
RunStages(q, i) ==
    LET mw == Middlewares(q.route)
    IN IF i > Len(mw) THEN HandlerEntry(q)
       ELSE CASE mw[i] = "authMiddleware" -> AuthEnter([q EXCEPT !.stage = i])
              [] mw[i] = "isAdmin" ->
                   IF isAdmin(q.user)
                   THEN RunStages([q EXCEPT !.log = Append(@, "isAdmin:next")], i + 1)
                   ELSE PassError(q, CustomError("Admin access required", 403))
              [] OTHER ->
                   IF upload(q) # None THEN PassError(q, upload(q)[1])
                   ELSE RunStages(q, i + 1)

\* Issuance that tests the access secret only.
createAccessTokensTestsAccessOnly(user, t) ==
    IF env.JWT_SECRET = ""
    THEN [err |-> Some(CustomError("JWT secret is not configured!", 500)),
          pair |-> None]
    ELSE LET payload == Claims(user._id, user.email, user.role)
         IN [err |-> None,
             pair |-> Some([accessToken |->
                                signJwt(payload, env.JWT_SECRET, AccessLifetime, t),
                            refreshToken |->
                                signJwt(payload, env.JWT_REFRESH_SECRET,
                                        RefreshLifetime, t)])]

\* ------------------------------------------------------------ authService
createAccessTokens(user, t) ==
    IF env.JWT_SECRET = "" \/ env.JWT_REFRESH_SECRET = ""
    THEN [err |-> Some(CustomError("JWT secret is not configured!", 500)),
          pair |-> None]
    ELSE LET payload == Claims(user._id, user.email, user.role)
         IN [err |-> None,
             pair |-> Some([accessToken |->
                                signJwt(payload, env.JWT_SECRET, AccessLifetime, t),
                            refreshToken |->
                                signJwt(payload, env.JWT_REFRESH_SECRET,
                                        RefreshLifetime, t)])]

\* A response that returns the whole pair in the body.
TokenResponseWithPair(q, code, pair) ==
    [Respond(q, code, pair)
        EXCEPT !.setCookie = Some(pair.refreshToken),
               !.cookieOptions = Some([httpOnly |-> TRUE, secure |-> TRUE,
                                       sameSite |-> "none",
                                       maxAge |-> CookieMaxAge])]

\* res.status(code).cookie("refreshToken", ...).json({ accessToken })
TokenResponse(q, code, pair) ==
    [Respond(q, code, [accessToken |-> pair.accessToken])
        EXCEPT !.setCookie = Some(pair.refreshToken),
               !.cookieOptions = Some([httpOnly |-> TRUE, secure |-> TRUE,
                                       sameSite |-> "none",
                                       maxAge |-> CookieMaxAge])]

\* User.findOne({ email })
findUser(email) ==
    IF \E u \in users : u.email = email
    THEN Some(CHOOSE u \in users : u.email = email)
    ELSE None

\* User.findById(id)
findById(id) ==
    IF \E u \in users : u._id = id
    THEN Some(CHOOSE u \in users : u._id = id)
    ELSE None

\* A schema whose role defaults to admin.
NewUserAdmin(data) ==
    [_id |-> Cardinality(users) + 1, email |-> data.email,
     password |-> Hash(data.password), role |-> "admin"]

\* A schema without the pre("save") hook: the password is stored as given.
NewUserPlainPassword(data) ==
    [_id |-> Cardinality(users) + 1, email |-> data.email,
     password |-> <<"plain", data.password>>, role |-> "user"]

\* The document User.create(data) stores: schema defaults, hashed password.
NewUser(data) ==
    [_id |-> Cardinality(users) + 1, email |-> data.email,
     password |-> Hash(data.password), role |-> "user"]

\* ------------------------------------------------------------- the inputs
CredBodies ==
    {[NoBody EXCEPT !.kind = "cred", !.email = e, !.password = p, !.valid = TRUE] :
        e \in Emails, p \in Passwords}
    \cup {[NoBody EXCEPT !.kind = "cred"]}

\* Bodies of the resource routes: whether the schema accepts them, the id in
\* the path, the title, the uploaded file.
DocBodies(op) ==
    LET withId == op \notin {"create", "upload"}
        withData == op \notin {"delete", "getById"}
        withFile == op \in {"upload", "editUpload"}
        good == {[NoBody EXCEPT !.kind = "doc", !.valid = TRUE, !.id = i,
                                !.title = t, !.file = f] :
                    i \in (IF withId THEN DocIds ELSE {""}),
                    t \in (IF withData THEN Titles ELSE {""}),
                    f \in (IF withFile THEN {"pdf"} ELSE {"none"})}
        g == CHOOSE x \in good : TRUE
    IN good
       \cup (IF withId THEN {[g EXCEPT !.id = "bad"]} ELSE {})
       \cup (IF withData THEN {[g EXCEPT !.valid = FALSE]} ELSE {})
       \cup (IF withFile THEN {[g EXCEPT !.file = f] : f \in {"none", "other", "big"}}
             ELSE {})

\* What a client can send as the refreshToken cookie.
Cookies == {None} \cup {Some(t) : t \in issued \cup {EmptyToken, ForgedToken}}

Envs == [JWT_SECRET : {"", "k1", "k2"}, JWT_REFRESH_SECRET : SecretValues]

\* refresh tokens a route hands out when it succeeds
Cost(route) ==
    IF route.area = "auth" /\ route.op \in {"register", "login"} THEN 1 ELSE 0

RECURSIVE SumCost(_)
SumCost(S) ==
    IF S = {} THEN 0
    ELSE LET r == CHOOSE x \in S : TRUE
         IN (IF reqs[r].pc \in {"idle", "done"} THEN 0 ELSE Cost(reqs[r].route))
            + SumCost(S \ {r})

\* ------------------------------------------------------------ the actions
\* A finished request is handed back to its client before anything else
\* happens (handing back changes nothing in the program).
NoneDone == \A r \in ReqIds : reqs[r].pc # "done"

\* A request arrives and runs up to its first await.
Arrive(r, route, cookie, body) ==
    /\ NoneDone
    /\ reqs[r].pc = "idle"
    /\ Cardinality(issued) + SumCost(ReqIds) + Cost(route) <= MaxTokens
    /\ Cost(route) > 0 => now <= MaxLoginDay
    /\ reqs' = [reqs EXCEPT ![r] =
           RunStages([IdleReq EXCEPT !.route = route, !.cookie = cookie,
                                     !.body = body,
                                     !.revokedAtStart =
                                         cookie # None /\ cookie[1] \in revoked], 1)]
    /\ UNCHANGED <<now, env, users, denylist, store, issued, revoked>>

\* The denylist lookup of the auth middleware resolves or rejects.
FindOneDone(r) ==
    /\ NoneDone
    /\ reqs[r].pc = "findOne"
    /\ \E rejected \in BOOLEAN :
         LET doc == findOne(reqs[r].token[1])
             q == [reqs[r] EXCEPT !.listedAtLookup = ~rejected /\ doc # None]
         IN reqs' = [reqs EXCEPT ![r] = AuthAfterFindOne(q, rejected, doc)]
    /\ UNCHANGED <<now, env, users, denylist, store, issued, revoked>>

\* The verifier of the auth middleware resolves or rejects.
VerifyDone(r) ==
    /\ NoneDone
    /\ reqs[r].pc = "verifyJwt"
    /\ LET q == AuthAfterVerify(reqs[r],
                                verifyJwt(reqs[r].token[1], reqs[r].secret, now))
       IN reqs' = [reqs EXCEPT ![r] =
              IF q.pc = "done" THEN q ELSE RunStages(q, q.stage + 1)]
    /\ UNCHANGED <<now, env, users, denylist, store, issued, revoked>>

\* register without the lookup by email.
RegisterNoLookup(r) ==
    /\ NoneDone
    /\ reqs[r].pc = "handler"
    /\ reqs[r].route = AuthRoute("register")
    /\ reqs' = [reqs EXCEPT ![r] = [reqs[r] EXCEPT !.pc = "createUser"]]
    /\ UNCHANGED <<now, env, users, denylist, store, issued, revoked>>

\* authService.register, first await: the lookup by email.
Register(r) ==
    /\ NoneDone
    /\ reqs[r].pc = "handler"
    /\ reqs[r].route = AuthRoute("register")
    /\ reqs' = [reqs EXCEPT ![r] =
           IF findUser(reqs[r].body.email) # None
           THEN PassError(reqs[r], CustomError("This email already registered!", 409))
           ELSE [reqs[r] EXCEPT !.pc = "createUser"]]
    /\ UNCHANGED <<now, env, users, denylist, store, issued, revoked>>

\* User.create on a collection without the unique index on email.
CreateUserNoIndex(r) ==
    /\ NoneDone
    /\ reqs[r].pc = "createUser"
    /\ LET q == reqs[r]
           u == NewUser(q.body)
           tokens == createAccessTokens(u, now)
       IN /\ users' = users \cup {u}
          /\ IF tokens.err # None
             THEN /\ reqs' = [reqs EXCEPT ![r] = PassError(q, tokens.err[1])]
                  /\ UNCHANGED issued
             ELSE /\ reqs' = [reqs EXCEPT ![r] = TokenResponse(q, 201, tokens.pair[1])]
                  /\ issued' = issued \cup {tokens.pair[1].refreshToken}
    /\ UNCHANGED <<now, env, denylist, store, revoked>>

\* authService.register, User.create and the token pair.
CreateUser(r) ==
    /\ NoneDone
    /\ reqs[r].pc = "createUser"
    /\ LET q == reqs[r]
           u == NewUser(q.body)
           tokens == createAccessTokens(u, now)
       IN IF findUser(q.body.email) # None
          THEN /\ reqs' = [reqs EXCEPT ![r] = PassError(q, PlainError("E11000 duplicate key"))]
               /\ UNCHANGED <<users, issued>>
          ELSE /\ users' = users \cup {u}
               /\ IF tokens.err # None
                  THEN /\ reqs' = [reqs EXCEPT ![r] = PassError(q, tokens.err[1])]
                       /\ UNCHANGED issued
                  ELSE /\ reqs' = [reqs EXCEPT ![r] = TokenResponse(q, 201, tokens.pair[1])]
                       /\ issued' = issued \cup {tokens.pair[1].refreshToken}
    /\ UNCHANGED <<now, env, denylist, store, revoked>>

\* authService.login
Login(r) ==
    /\ NoneDone
    /\ reqs[r].pc = "handler"
    /\ reqs[r].route = AuthRoute("login")
    /\ LET user == findUser(reqs[r].body.email)
           q == IF user = None THEN reqs[r]
                ELSE [reqs[r] EXCEPT !.log = Append(@, "compare")]
           tokens == createAccessTokens(user[1], now)
       IN IF user = None
          THEN /\ reqs' = [reqs EXCEPT ![r] = PassError(q, CustomError("User does not exist!", 404))]
               /\ UNCHANGED issued
          ELSE IF ~compare(q.body.password, user[1].password)
          THEN /\ reqs' = [reqs EXCEPT ![r] = PassError(q, CustomError("Password does not match!", 401))]
               /\ UNCHANGED issued
          ELSE IF tokens.err # None
          THEN /\ reqs' = [reqs EXCEPT ![r] = PassError(q, tokens.err[1])]
               /\ UNCHANGED issued
          ELSE /\ reqs' = [reqs EXCEPT ![r] = TokenResponse(q, 201, tokens.pair[1])]
               /\ issued' = issued \cup {tokens.pair[1].refreshToken}
    /\ UNCHANGED <<now, env, users, denylist, store, revoked>>

\* A logout service that lists a token only when it still verifies.
logoutVerifiedOnly(token) ==
    IF token.form = "empty"
    THEN [err |-> Some(PlainError("InvalidToken validation failed")), docs |-> denylist]
    ELSE IF verifyJwt(token, env.JWT_REFRESH_SECRET, now).err # None
         THEN [err |-> None, docs |-> denylist]
    ELSE [err |-> None, docs |-> denylist \cup {[token |-> token, createdAt |-> now]}]

\* authService.logout: InvalidToken.create({ token }). The schema requires the
\* token (an empty string fails the validator) and puts no unique index on
\* it: the call rejects for "" and adds an entry for any other string.
logout(token) ==
    IF token.form = "empty"
    THEN [err |-> Some(PlainError("InvalidToken validation failed")), docs |-> denylist]
    ELSE [err |-> None, docs |-> denylist \cup {[token |-> token, createdAt |-> now]}]

\* POST /logout answering without the insert into the denylist.
LogoutNoInsert(r) ==
    /\ NoneDone
    /\ reqs[r].pc = "handler"
    /\ reqs[r].route = AuthRoute("logout")
    /\ reqs' = [reqs EXCEPT ![r] =
           [Respond(reqs[r], 200, [message |-> "Logged out successfully"])
               EXCEPT !.cleared = TRUE, !.log = Append(@, "clearCookie")]]
    /\ UNCHANGED <<now, env, users, denylist, store, issued, revoked>>

\* POST /logout: authService.logout, then the cookie is cleared.
Logout(r) ==
    /\ NoneDone
    /\ reqs[r].pc = "handler"
    /\ reqs[r].route = AuthRoute("logout")
    /\ denylist' = logout(reqs[r].cookie[1]).docs
    /\ revoked' = revoked \cup {reqs[r].cookie[1]}
    /\ reqs' = [reqs EXCEPT ![r] =
           [Respond(reqs[r], 200, [message |-> "Logged out successfully"])
               EXCEPT !.cleared = TRUE, !.log = Append(@, "clearCookie")]]
    /\ UNCHANGED <<now, env, users, store, issued>>

\* GET /profile: authService.getUserById
Profile(r) ==
    /\ NoneDone
    /\ reqs[r].pc = "handler"
    /\ reqs[r].route = AuthRoute("profile")
    /\ LET user == findById(reqs[r].user[1]._id)
       IN reqs' = [reqs EXCEPT ![r] =
              IF user = None
              THEN PassError(reqs[r], CustomError("There is no user with this id!", 404))
              ELSE Respond(reqs[r], 200,
                           [_id |-> user[1]._id, email |-> user[1].email,
                            role |-> user[1].role])]
    /\ UNCHANGED <<now, env, users, denylist, store, issued, revoked>>

\* POST /refresh: a new access token from the claims on the request.
\* A refresh that rotates: the new refresh token is sent in the cookie.
RefreshRotates(r) ==
    /\ NoneDone
    /\ reqs[r].pc = "handler"
    /\ reqs[r].route = AuthRoute("refresh")
    /\ LET user == reqs[r].user[1]
           tokens == createAccessTokens(user, now)
       IN /\ reqs' = [reqs EXCEPT ![r] =
                 IF tokens.err # None
                 THEN PassError(reqs[r], tokens.err[1])
                 ELSE TokenResponse(reqs[r], 200, tokens.pair[1])]
          /\ issued' = IF tokens.err # None THEN issued
                       ELSE issued \cup {tokens.pair[1].refreshToken}
    /\ UNCHANGED <<now, env, users, denylist, store, revoked>>

Refresh(r) ==
    /\ NoneDone
    /\ reqs[r].pc = "handler"
    /\ reqs[r].route = AuthRoute("refresh")
    /\ LET user == reqs[r].user[1]
           tokens == createAccessTokens(user, now)
       IN reqs' = [reqs EXCEPT ![r] =
              IF tokens.err # None
              THEN PassError(reqs[r], tokens.err[1])
              ELSE Respond(reqs[r], 200, [accessToken |-> tokens.pair[1].accessToken])]
    /\ UNCHANGED <<now, env, users, denylist, store, issued, revoked>>

\* A handler of the protocol, offer or invitation routes awaits its service:
\* create / createWithFile, edit / editWithFile (findByIdAndUpdate), remove
\* (findByIdAndDelete), getById, getAll.
AdminService(r) ==
    /\ NoneDone
    /\ reqs[r].pc = "handler"
    /\ reqs[r].route.area \in Resources
    /\ LET q == reqs[r]
           res == q.route.area
           op == q.route.op
           id == q.body.id
           notFound == PassError(q, CustomError("not found", 404))
       IN CASE op \in {"create", "upload"} ->
                 /\ \E d \in DocIds : store[res][d] = ""
                 /\ LET d == CHOOSE d \in DocIds : store[res][d] = ""
                    IN /\ store' = [store EXCEPT ![res][d] = q.body.title]
                       /\ reqs' = [reqs EXCEPT ![r] = Respond(q, 201, [title |-> q.body.title])]
            [] op \in {"edit", "editUpload"} ->
                 IF store[res][id] = ""
                 THEN /\ reqs' = [reqs EXCEPT ![r] = notFound]
                      /\ UNCHANGED store
                 ELSE /\ store' = [store EXCEPT ![res][id] = q.body.title]
                      /\ reqs' = [reqs EXCEPT ![r] = Respond(q, 200, [title |-> q.body.title])]
            [] op = "delete" ->
                 IF store[res][id] = ""
                 THEN /\ reqs' = [reqs EXCEPT ![r] = notFound]
                      /\ UNCHANGED store
                 ELSE /\ store' = [store EXCEPT ![res][id] = ""]
                      /\ reqs' = [reqs EXCEPT ![r] = Respond(q, 204, [title |-> ""])]
            [] op = "getById" ->
                 /\ reqs' = [reqs EXCEPT ![r] =
                        IF store[res][id] = "" THEN notFound
                        ELSE Respond(q, 200, [title |-> store[res][id]])]
                 /\ UNCHANGED store
            [] OTHER ->
                 /\ reqs' = [reqs EXCEPT ![r] = Respond(q, 200, [title |-> ""])]
                 /\ UNCHANGED store
    /\ UNCHANGED <<now, env, users, denylist, issued, revoked>>

\* The client has its answer; the slot is free again.
Recycle(r) ==
    /\ reqs[r].pc = "done"
    /\ reqs' = [reqs EXCEPT ![r] = IdleReq]
    /\ UNCHANGED <<now, env, users, denylist, store, issued, revoked>>

\* A day passes, between requests (a request lasts far less than a day). The
\* TTL monitor runs every minute, so no entry is overdue for a whole day.
Tick ==
    /\ \A r \in ReqIds : reqs[r].pc = "idle"
    /\ now < MaxDay
    /\ \A d \in denylist : now < d.createdAt + Retention
    /\ now' = now + 1
    /\ UNCHANGED <<env, users, denylist, store, issued, revoked, reqs>>

\* The store's TTL monitor removes a denylist entry older than the retention.
Purge ==
    /\ NoneDone
    /\ \E d \in denylist :
         /\ now >= d.createdAt + Retention
         /\ denylist' = denylist \ {d}
    /\ UNCHANGED <<now, env, users, store, issued, revoked, reqs>>

\* A user's role is raised directly in the store.
Promote ==
    /\ NoneDone
    /\ \E u \in users :
         /\ u.role # "admin"
         /\ users' = (users \ {u}) \cup {[u EXCEPT !.role = "admin"]}
    /\ UNCHANGED <<now, env, denylist, store, issued, revoked, reqs>>

\* The process is restarted with another environment.
Restart ==
    /\ NoneDone
    /\ \A r \in ReqIds : reqs[r].pc = "idle"
    /\ \E e \in Envs : e # env /\ env' = e
    /\ UNCHANGED <<now, users, denylist, store, issued, revoked, reqs>>

AuthRoutes == {AuthRoute(op) : op \in {"register", "login", "logout", "profile", "refresh"}}

\* The cookie matters to the routes behind the auth middleware, the body to
\* register and login.
CookiesFor(route) == IF Middlewares(route) = <<>> THEN {None} ELSE Cookies
BodiesFor(route) ==
    IF Cost(route) = 1 THEN CredBodies
    ELSE IF route.area \in Resources /\ route.op # "getAll" THEN DocBodies(route.op)
    ELSE {NoBody}

Init ==
    /\ now = 0
    /\ env \in Envs
    /\ users = {}
    /\ denylist = {}
    /\ store = [res \in Resources |-> [d \in DocIds |-> ""]]
    /\ issued = {}
    /\ revoked = {}
    /\ reqs = [r \in ReqIds |-> IdleReq]

\* The steps of a request on the auth routes, in slot r.
AuthStep(r) ==
    \/ \E route \in AuthRoutes :
         \E cookie \in CookiesFor(route), body \in BodiesFor(route) :
           Arrive(r, route, cookie, body)
    \/ FindOneDone(r)
    \/ VerifyDone(r)
    \/ Register(r)
    \/ CreateUser(r)
    \/ Login(r)
    \/ Logout(r)
    \/ Profile(r)
    \/ Refresh(r)
    \/ Recycle(r)

\* Concurrent requests on the auth routes, within one day.
Next ==
    \/ \E r \in ReqIds : AuthStep(r)
    \/ Promote

Spec == Init /\ [][Next]_vars

\* Concurrent requests on the auth routes and nothing else: no role is changed
\* in the store.
NextAuth == \E r \in ReqIds : AuthStep(r)

SpecAuth == Init /\ [][NextAuth]_vars

\* The client that has just registered logs in with the same credentials.
LoginAfterRegister(r) ==
    /\ reqs[r].pc = "done"
    /\ reqs[r].route = AuthRoute("register")
    /\ reqs[r].status = 201
    /\ reqs' = [reqs EXCEPT ![r] =
           RunStages([IdleReq EXCEPT !.route = AuthRoute("login"),
                                     !.body = reqs[r].body,
                                     !.follows = TRUE], 1)]
    /\ UNCHANGED <<now, env, users, denylist, store, issued, revoked>>

NextRegLogin ==
    \/ \E r \in ReqIds : AuthStep(r)
    \/ \E r \in ReqIds : LoginAfterRegister(r)

SpecRegLogin == Init /\ [][NextRegLogin]_vars

\* The access tokens the clients hold: one came with each refresh token.
AccessTokens ==
    {signJwt(t.claims, env.JWT_SECRET, AccessLifetime, t.iat) : t \in issued}

\* One request at a time on the auth routes; a client may send an access token
\* it holds in the refreshToken cookie.
NextAccess ==
    \/ AuthStep("r1")
    \/ \E op \in {"logout", "profile", "refresh"}, t \in AccessTokens :
         Arrive("r1", AuthRoute(op), Some(t), NoBody)

SpecAccess == Init /\ [][NextAccess]_vars

\* One request at a time, over the days: the denylist's TTL, the tokens'
\* expiry, restarts with another environment.
NextTime ==
    \/ AuthStep("r1")
    \/ Tick
    \/ Purge
    \/ Restart

SpecTime == Init /\ [][NextTime]_vars

\* authService.logout called on its own, with any string, as the unit tests
\* of the service do.
ServiceCall(op) == [area |-> "service", op |-> op]

ServiceLogout(r) ==
    /\ NoneDone
    /\ reqs[r].pc = "idle"
    /\ \E t \in issued \cup {EmptyToken, ForgedToken} :
         LET res == logout(t)
         IN /\ denylist' = res.docs
            /\ revoked' = IF res.err = None THEN revoked \cup {t} ELSE revoked
            /\ reqs' = [reqs EXCEPT ![r] =
                   [IdleReq EXCEPT !.route = ServiceCall("logout"),
                                   !.token = Some(t), !.service = TRUE,
                                   !.nextErr = res.err, !.pc = "done"]]
    /\ UNCHANGED <<now, env, users, store, issued>>

NextService ==
    \/ AuthStep("r1")
    \/ Tick
    \/ Purge
    \/ ServiceLogout("r1")

SpecService == Init /\ [][NextService]_vars

\* The errors that reach errorHandler: with or without statusCode, status and
\* a multer code.
Errors ==
    [message : {"error"}, statusCode : {0, 400, 401, 404, 409},
     status : {0, 403, 404}, code : {"", "LIMIT_FILE_SIZE", "LIMIT_UNEXPECTED_FILE"}]

\* errorHandler on its own: an error arrives for a response whose headers are
\* sent already or not.
InitHandler ==
    /\ now = 0
    /\ env = [JWT_SECRET |-> "k2", JWT_REFRESH_SECRET |-> "k1"]
    /\ users = {}
    /\ denylist = {}
    /\ store = [res \in Resources |-> [d \in DocIds |-> ""]]
    /\ issued = {}
    /\ revoked = {}
    /\ \E err \in Errors, hs \in BOOLEAN :
         reqs = [r \in ReqIds |->
                   IF r = "r1"
                   THEN [IdleReq EXCEPT !.route = AuthRoute("profile"),
                                        !.pc = "errorHandler",
                                        !.nextErr = Some(err),
                                        !.headersSent = hs,
                                        !.sent = IF hs THEN 1 ELSE 0,
                                        !.status = IF hs THEN 200 ELSE 0]
                   ELSE IdleReq]

ErrorHandle(r) ==
    /\ reqs[r].pc = "errorHandler"
    /\ reqs' = [reqs EXCEPT ![r] = errorHandler(reqs[r], reqs[r].nextErr[1])]
    /\ UNCHANGED <<now, env, users, denylist, store, issued, revoked>>

NextHandler == ErrorHandle("r1")

SpecHandler == InitHandler /\ [][NextHandler]_vars

\* ------------------------------------------------ inviteService and GCS
\* inviteService.editWithFile and inviteService.removeAndRemoveFromGCS, called
\* on their own. Each await is a step; log records the calls made to the
\* store and to gcsService in the order they are made.
FileOps == {"editWithFile", "removeAndRemoveFromGCS"}
InviteIds == DocIds \cup {"d2"}
Invite(id) == IF id \in DocIds THEN store["invitations"][id] ELSE ""

\* the service is called and awaits Invite.findById(inviteId)
FileServiceCall(r) ==
    /\ NoneDone
    /\ reqs[r].pc = "idle"
    /\ \E op \in FileOps, id \in InviteIds, t \in Titles :
         reqs' = [reqs EXCEPT ![r] =
             [IdleReq EXCEPT !.route = ServiceCall(op),
                             !.body = [NoBody EXCEPT !.kind = "doc", !.valid = TRUE,
                                                     !.id = id, !.title = t,
                                                     !.file = "pdf"],
                             !.service = TRUE, !.pc = "findById",
                             !.log = <<"findById">>]]
    /\ UNCHANGED <<now, env, users, denylist, store, issued, revoked>>

\* the call that follows the deletion of the old file, or its absence
AfterOldFile(q) ==
    IF q.route.op = "editWithFile"
    THEN [q EXCEPT !.pc = "uploadFile", !.log = Append(@, "uploadFile")]
    ELSE [q EXCEPT !.pc = "findByIdAndDelete", !.log = Append(@, "findByIdAndDelete")]

\* A variant of the step after findById without the test of its result.
FindByIdDoneNoTest(r) ==
    /\ NoneDone
    /\ reqs[r].pc = "findById"
    /\ reqs' = [reqs EXCEPT ![r] =
           [reqs[r] EXCEPT !.filePath = "old.pdf", !.pc = "deleteFile",
                           !.log = Append(@, "deleteFile")]]
    /\ UNCHANGED <<now, env, users, denylist, store, issued, revoked>>

\* findById resolved: without a record the service throws 404; with one, the
\* path of its file inside the bucket is cut out of fileUrl (empty when the
\* url is not one of the bucket) and the file is deleted when there is a path.
FindByIdDone(r) ==
    /\ NoneDone
    /\ reqs[r].pc = "findById"
    /\ IF Invite(reqs[r].body.id) = ""
       THEN reqs' = [reqs EXCEPT ![r] =
                [reqs[r] EXCEPT !.pc = "done",
                     !.nextErr = Some(CustomError(
                         IF reqs[r].route.op = "editWithFile"
                         THEN "Protocol not found!" ELSE "Invite not found!", 404))]]
       ELSE \E filePath \in {"", "old.pdf"} :
              reqs' = [reqs EXCEPT ![r] =
                  IF filePath # ""
                  THEN [reqs[r] EXCEPT !.filePath = filePath, !.pc = "deleteFile",
                                       !.log = Append(@, "deleteFile")]
                  ELSE AfterOldFile(reqs[r])]
    /\ UNCHANGED <<now, env, users, denylist, store, issued, revoked>>

\* gcsService.deleteFile resolved or rejected
DeleteFileDone(r) ==
    /\ NoneDone
    /\ reqs[r].pc = "deleteFile"
    /\ \E rejected \in BOOLEAN :
         reqs' = [reqs EXCEPT ![r] =
             IF rejected
             THEN [reqs[r] EXCEPT !.pc = "done", !.nextErr = Some(PlainError("GCS error"))]
             ELSE AfterOldFile(reqs[r])]
    /\ UNCHANGED <<now, env, users, denylist, store, issued, revoked>>

\* gcsService.uploadFile resolved or rejected; then Invite.findByIdAndUpdate
UploadFileDone(r) ==
    /\ NoneDone
    /\ reqs[r].pc = "uploadFile"
    /\ \E rejected \in BOOLEAN :
         reqs' = [reqs EXCEPT ![r] =
             IF rejected
             THEN [reqs[r] EXCEPT !.pc = "done", !.nextErr = Some(PlainError("GCS error"))]
             ELSE [reqs[r] EXCEPT !.pc = "findByIdAndUpdate",
                                  !.log = Append(@, "findByIdAndUpdate")]]
    /\ UNCHANGED <<now, env, users, denylist, store, issued, revoked>>

\* findByIdAndUpdate resolved: the record updated, or null when the record
\* was removed in between, and then updatedInvite._id throws a TypeError
FindByIdAndUpdateDone(r) ==
    /\ NoneDone
    /\ reqs[r].pc = "findByIdAndUpdate"
    /\ LET id == reqs[r].body.id
       IN IF Invite(id) = ""
          THEN /\ reqs' = [reqs EXCEPT ![r] =
                      [reqs[r] EXCEPT !.pc = "done",
                                      !.nextErr = Some(PlainError("TypeError"))]]
               /\ UNCHANGED store
          ELSE /\ store' = [store EXCEPT !["invitations"][id] = reqs[r].body.title]
               /\ reqs' = [reqs EXCEPT ![r] =
                      [reqs[r] EXCEPT !.pc = "done",
                                      !.resBody = Some([title |-> reqs[r].body.title])]]
    /\ UNCHANGED <<now, env, users, denylist, issued, revoked>>

\* findByIdAndDelete resolved
FindByIdAndDeleteDone(r) ==
    /\ NoneDone
    /\ reqs[r].pc = "findByIdAndDelete"
    /\ store' = [store EXCEPT !["invitations"][reqs[r].body.id] = ""]
    /\ reqs' = [reqs EXCEPT ![r] = [reqs[r] EXCEPT !.pc = "done"]]
    /\ UNCHANGED <<now, env, users, denylist, issued, revoked>>

\* inviteService.create: a record is stored
InviteCreate ==
    /\ NoneDone
    /\ \E d \in DocIds, t \in Titles :
         /\ store["invitations"][d] = ""
         /\ store' = [store EXCEPT !["invitations"][d] = t]
    /\ UNCHANGED <<now, env, users, denylist, issued, revoked, reqs>>

FileStep(r) ==
    \/ FileServiceCall(r)
    \/ FindByIdDone(r)
    \/ DeleteFileDone(r)
    \/ UploadFileDone(r)
    \/ FindByIdAndUpdateDone(r)
    \/ FindByIdAndDeleteDone(r)
    \/ Recycle(r)

\* Two callers of the service at once, and records created.
NextFiles ==
    \/ \E r \in ReqIds : FileStep(r)
    \/ InviteCreate

\* The invitations are there or not when the service is first called.
InitFiles ==
    /\ now = 0
    /\ env = [JWT_SECRET |-> "k2", JWT_REFRESH_SECRET |-> "k1"]
    /\ users = {}
    /\ denylist = {}
    /\ \E inv \in [DocIds -> Titles \cup {""}] :
         store = [res \in Resources |->
                    IF res = "invitations" THEN inv ELSE [d \in DocIds |-> ""]]
    /\ issued = {}
    /\ revoked = {}
    /\ reqs = [r \in ReqIds |-> IdleReq]

SpecFiles == InitFiles /\ [][NextFiles]_vars

\* The middleware called on a request that has no cookies map (no cookie
\* parser ran before it).
ArriveBare(r, route) ==
    /\ NoneDone
    /\ reqs[r].pc = "idle"
    /\ Middlewares(route) # <<>>
    /\ reqs' = [reqs EXCEPT ![r] =
           RunStages([IdleReq EXCEPT !.route = route, !.cookies = FALSE], 1)]
    /\ UNCHANGED <<now, env, users, denylist, store, issued, revoked>>

\* One request at a time over the days, with or without a cookies map.
NextBare ==
    \/ NextTime
    \/ \E route \in AuthRoutes : ArriveBare("r1", route)

SpecBare == Init /\ [][NextBare]_vars

AdminRoutes ==
    {[area |-> a, op |-> o] : a \in Resources, o \in AdminOps \cup {"getAll"}}

\* A user registered, was made admin in the store and logged in again: the
\* client holds the refresh token of the registration (role user) and the one
\* of the login (role admin).
UserToken == signJwt(Claims(1, "a@x", "user"), "k1", RefreshLifetime, 0)
AdminToken == signJwt(Claims(1, "a@x", "admin"), "k1", RefreshLifetime, 0)

InitAdmin ==
    /\ now = 0
    /\ env = [JWT_SECRET |-> "k2", JWT_REFRESH_SECRET |-> "k1"]
    /\ users = {[_id |-> 1, email |-> "a@x", password |-> Hash("secret1"),
                 role |-> "admin"]}
    /\ denylist = {}
    /\ store = [res \in Resources |-> [d \in DocIds |-> ""]]
    /\ issued = {UserToken, AdminToken}
    /\ revoked = {}
    /\ reqs = [r \in ReqIds |-> IdleReq]

\* Requests on the resource routes, and logouts, one at a time.
NextAdmin ==
    \/ \E route \in AdminRoutes \cup {AuthRoute("logout")} :
         \E cookie \in CookiesFor(route), body \in BodiesFor(route) :
           Arrive("r1", route, cookie, body)
    \/ FindOneDone("r1")
    \/ VerifyDone("r1")
    \/ AdminService("r1")
    \/ Logout("r1")
    \/ Recycle("r1")

SpecAdmin == InitAdmin /\ [][NextAdmin]_vars

\* An admin's role is lowered directly in the store.
Demote ==
    /\ NoneDone
    /\ \E u \in users :
         /\ u.role = "admin"
         /\ users' = (users \ {u}) \cup {[u EXCEPT !.role = "user"]}
    /\ UNCHANGED <<now, env, denylist, store, issued, revoked, reqs>>

\* One request at a time on the auth routes and on an admin-only route, while
\* roles are changed in the store.
NextRoleChange ==
    \/ AuthStep("r1")
    \/ \E body \in DocBodies("getById"), cookie \in Cookies :
         Arrive("r1", [area |-> "offers", op |-> "getById"], cookie, body)
    \/ AdminService("r1")
    \/ Promote
    \/ Demote

SpecRoleChange == Init /\ [][NextRoleChange]_vars

\* ------------------------------------------------- the role middleware alone
\* isAdmin called on a request whatever was attached to it.
UserInputs ==
    {None} \cup
    {Some([_id |-> 1, email |-> e, role |-> ro, iat |-> 0, exp |-> RefreshLifetime]) :
        e \in Emails, ro \in {"admin", "user", "Admin", "ADMIN", "administrator", ""}}

InitRole ==
    /\ now = 0
    /\ env = [JWT_SECRET |-> "k2", JWT_REFRESH_SECRET |-> "k1"]
    /\ users = {}
    /\ denylist = {}
    /\ store = [res \in Resources |-> [d \in DocIds |-> ""]]
    /\ issued = {}
    /\ revoked = {}
    /\ reqs \in [ReqIds ->
           {[IdleReq EXCEPT !.route = [area |-> "offers", op |-> "getById"],
                            !.body = [NoBody EXCEPT !.kind = "doc", !.id = "d1"],
                            !.pc = "isAdmin", !.stage = 2, !.user = u] :
               u \in UserInputs}]

\* The role middleware runs; on success the router goes on to the handler.
RoleCheck(r) ==
    /\ NoneDone
    /\ reqs[r].pc = "isAdmin"
    /\ reqs' = [reqs EXCEPT ![r] = RunStages(reqs[r], reqs[r].stage)]
    /\ UNCHANGED <<now, env, users, denylist, store, issued, revoked>>

NextRole ==
    \/ \E r \in ReqIds : RoleCheck(r)
    \/ \E r \in ReqIds : AdminService(r)
    \/ \E r \in ReqIds : Recycle(r)

SpecRole == InitRole /\ [][NextRole]_vars

\* ================================================================ claims
Req(r) == reqs[r]

InLog(q, e) == \E i \in 1..Len(q.log) : q.log[i] = e

\* the request went through the auth middleware
Guarded(q) == Len(Middlewares(q.route)) > 0 /\ q.route # NoRoute

\* the auth middleware ended by passing an error to the next stage
AuthFailed(q) == Guarded(q) /\ q.pc = "done" /\ ~InLog(q, "next")

\* the auth middleware ended by calling next()
AuthPassed(q) == Guarded(q) /\ InLog(q, "next")

StoreError == PlainError("DB error")

\* C1: once a logout with refresh token T has completed, every later check
\* of a request carrying T, made before T's embedded expiry, ends with 403
\* "Invalid token!" (left aside: lookups that the store itself fails, and a
\* process restarted without its refresh secret).
C1_RevokedTokenIsRefused ==
    \A r \in ReqIds :
        (/\ Guarded(Req(r))
         /\ Req(r).pc = "done"
         /\ Req(r).revokedAtStart
         /\ now < Req(r).cookie[1].exp
         /\ env.JWT_REFRESH_SECRET # ""
         /\ Req(r).nextErr # Some(StoreError))
        => Req(r).nextErr = Some(CustomError("Invalid token!", 403))

\* C2: a denylist entry outlives the token it revokes: every token whose
\* logout has completed and that still verifies has an entry in the denylist.
C2_EntryOutlivesToken ==
    \A t \in revoked :
        (t.form = "jwt" /\ t.key = env.JWT_REFRESH_SECRET /\ now < t.exp)
        => \E d \in denylist : d.token = t

\* ---------------------------------------------------------------- C3
Before(q, a, b) ==
    \E i, j \in 1..Len(q.log) : i < j /\ q.log[i] = a /\ q.log[j] = b

\* C3: a request without a refreshToken cookie (none, or an empty one) ends
\* in the auth middleware with 401 "Missing token!" passed to the next stage;
\* no denylist lookup, no verifier call, no cookie cleared, no identity.
C3_NoCookieIs401 ==
    \A r \in ReqIds :
        (Guarded(Req(r)) /\ Req(r).pc # "idle" /\ ~Truthy(Req(r).cookie))
        => /\ Req(r).pc = "done"
           /\ Req(r).nextErr = Some(CustomError("Missing token!", 401))
           /\ Req(r).status = 401
           /\ Req(r).log = <<"next(err)">>
           /\ ~Req(r).cleared
           /\ Req(r).user = None
           /\ ~Req(r).isAuthenticated

C3_Witness ==
    \E r \in ReqIds :
        /\ Req(r).route = AuthRoute("profile")
        /\ Req(r).cookie = None
        /\ Req(r).pc = "done"
        /\ Req(r).status = 401
        /\ denylist # {}

\* ---------------------------------------------------------------- C4
WouldVerify(tok) ==
    tok.form = "jwt" /\ tok.key = env.JWT_REFRESH_SECRET /\ tok.key # "" /\ now < tok.exp

\* C4: a request whose cookie matched a denylist entry at the lookup ends with
\* 403 "Invalid token!"; the verifier is never called for it and no identity
\* is attached, although the token would verify.
C4_DenylistedIs403 ==
    \A r \in ReqIds :
        Req(r).listedAtLookup
        => /\ Req(r).pc = "done"
           /\ Req(r).nextErr = Some(CustomError("Invalid token!", 403))
           /\ Req(r).status = 403
           /\ ~InLog(Req(r), "verifyJwt")
           /\ ~InLog(Req(r), "next")
           /\ Req(r).user = None
           /\ ~Req(r).isAuthenticated
           /\ ~Req(r).service

C4_Witness ==
    \E r \in ReqIds :
        /\ Req(r).listedAtLookup
        /\ WouldVerify(Req(r).cookie[1])
        /\ Req(r).status = 403

\* ---------------------------------------------------------------- C5
SecretError == CustomError("JWT refresh secret is not configured!", 500)

\* C5 as stated: with the refresh secret unset, every request that carries a
\* token ends with 500 "JWT refresh secret is not configured!", the denylisted
\* ones included (left aside: lookups that the store itself fails).
C5_UnsetSecretAlways500 ==
    \A r \in ReqIds :
        (/\ Guarded(Req(r))
         /\ Req(r).pc = "done"
         /\ Truthy(Req(r).cookie)
         /\ env.JWT_REFRESH_SECRET = ""
         /\ Req(r).nextErr # Some(StoreError))
        => Req(r).nextErr = Some(SecretError)

\* C5 amended: with the refresh secret unset, a request ends with 500 "JWT
\* refresh secret is not configured!" exactly when it carries a token that
\* the lookup did not find in the denylist, be it valid, expired or forged,
\* and then the verifier is not called; without a cookie it ends with 401,
\* with a denylisted token with 403, with a failed lookup with the store's
\* error.
C5_UnsetSecretIs500 ==
    \A r \in ReqIds :
        (Guarded(Req(r)) /\ Req(r).pc = "done" /\ env.JWT_REFRESH_SECRET = "")
        => /\ (/\ Truthy(Req(r).cookie)
               /\ ~Req(r).listedAtLookup
               /\ Req(r).nextErr # Some(StoreError))
              => /\ Req(r).nextErr = Some(SecretError)
                 /\ Req(r).status = 500
           /\ ~Truthy(Req(r).cookie)
              => Req(r).nextErr = Some(CustomError("Missing token!", 401))
           /\ Req(r).listedAtLookup
              => Req(r).nextErr = Some(CustomError("Invalid token!", 403))
           /\ ~InLog(Req(r), "verifyJwt")
           /\ ~Req(r).isAuthenticated

C5_Witness ==
    \E r \in ReqIds :
        /\ Req(r).pc = "done"
        /\ env.JWT_REFRESH_SECRET = ""
        /\ Req(r).cookie # None
        /\ Req(r).cookie[1] \in issued
        /\ now < Req(r).cookie[1].exp
        /\ ~Req(r).listedAtLookup
        /\ Req(r).nextErr = Some(SecretError)
        /\ Req(r).status = 500

\* ---------------------------------------------------------------- C6
\* C6: whenever the auth middleware fails on a request that sent a token
\* (denylisted, secret missing, verification failed, lookup failed), the
\* cookie is cleared, and cleared before the error is passed on.
C6_ClearedBeforeError ==
    \A r \in ReqIds :
        (AuthFailed(Req(r)) /\ Truthy(Req(r).cookie))
        => /\ Req(r).cleared
           /\ Before(Req(r), "clearCookie", "next(err)")
           /\ Req(r).log[Len(Req(r).log)] = "next(err)"

C6_Witness ==
    \E r \in ReqIds :
        /\ AuthFailed(Req(r))
        /\ Req(r).nextErr = Some(StoreError)
        /\ Req(r).cookie[1] \in issued
        /\ Req(r).cleared

\* ---------------------------------------------------------------- C7
\* C7: a request is marked authenticated (identity attached, flag set, next()
\* called) only if it sent a token, the lookup did not find the token in the
\* denylist, and the token is a token signed with the refresh secret and not
\* yet expired; the identity is then the token's decoded payload. A request
\* the middleware failed has no identity and no flag.
C7_AuthenticatedOnlyIfVerified ==
    \A r \in ReqIds :
        (Guarded(Req(r)) /\ Req(r).pc # "idle")
        => /\ Req(r).isAuthenticated <=> Req(r).user # None
           /\ Req(r).isAuthenticated <=> InLog(Req(r), "next")
           /\ Req(r).isAuthenticated
              => /\ Truthy(Req(r).cookie)
                 /\ ~Req(r).listedAtLookup
                 /\ Before(Req(r), "findOne", "verifyJwt")
                 /\ Before(Req(r), "verifyJwt", "next")
                 /\ ~InLog(Req(r), "next(err)") \/ Req(r).service
                 /\ Req(r).cookie[1].form = "jwt"
                 /\ Req(r).cookie[1].key = env.JWT_REFRESH_SECRET
                 /\ Req(r).cookie[1].key # ""
                 /\ now < Req(r).cookie[1].exp
                 /\ Req(r).cookie[1] \in issued
                 /\ Req(r).user = Some(Decoded(Req(r).cookie[1]))
           /\ AuthFailed(Req(r))
              => /\ Req(r).user = None
                 /\ ~Req(r).isAuthenticated
                 /\ Req(r).nextErr # None

C7_Witness ==
    \E r \in ReqIds :
        /\ Req(r).route = AuthRoute("profile")
        /\ Req(r).isAuthenticated
        /\ Req(r).user = Some(Decoded(Req(r).cookie[1]))
        /\ Req(r).pc = "done"
        /\ Req(r).status = 200
        /\ now = Req(r).cookie[1].exp - 1

\* ---------------------------------------------------------------- C8
\* a step of the auth middleware on the request in slot r: entry, the step
\* after the lookup, the step after the verifier
AuthMiddlewareStep(r) ==
    \/ reqs[r].pc = "idle" /\ reqs'[r].pc # "idle" /\ Guarded(reqs'[r])
    \/ reqs[r].pc \in {"findOne", "verifyJwt"} /\ reqs'[r] # reqs[r]

\* C8: a step of the auth middleware leaves the denylist, the users, the
\* stored records and the tokens handed out as they are and sets no cookie
\* and no body on the response; it changes nothing of the request but the
\* identity and the flag, which it sets when it calls next(), and it clears
\* the cookie only when it fails.
C8_PureGate ==
    [][\A r \in ReqIds :
          AuthMiddlewareStep(r)
          => /\ denylist' = denylist
             /\ users' = users
             /\ issued' = issued
             /\ store' = store
             /\ reqs'[r].setCookie = None
             /\ reqs'[r].resBody = None
             /\ reqs[r].pc # "idle"
                => /\ reqs'[r].cookie = reqs[r].cookie
                   /\ reqs'[r].body = reqs[r].body
                   /\ reqs'[r].route = reqs[r].route
             /\ InLog(reqs'[r], "next")
                => /\ ~reqs'[r].cleared
                   /\ reqs'[r].isAuthenticated
                   /\ reqs'[r].nextErr = None
             /\ ~InLog(reqs'[r], "next")
                => /\ reqs'[r].user = None
                   /\ ~reqs'[r].isAuthenticated
                   /\ reqs'[r].cleared => reqs'[r].pc = "done"]_vars

C8_Witness ==
    \E r \in ReqIds :
        /\ Req(r).route = AuthRoute("refresh")
        /\ AuthFailed(Req(r))
        /\ Req(r).cleared
        /\ Req(r).cookie = Some(ForgedToken)
        /\ denylist # {}
        /\ \E t \in issued : \A d \in denylist : d.token # t

\* ---------------------------------------------------------------- C9
\* C9: the role middleware lets the request on to the next stage exactly when
\* the identity on the request has the role "admin"; with any other role, or
\* with no identity, it fails with 403 and the handler is not entered; it
\* touches no collection.
C9_AdminOnly ==
    [][\A r \in ReqIds :
          (reqs[r].pc = "isAdmin" /\ reqs'[r] # reqs[r])
          => /\ UNCHANGED <<users, denylist, store, issued>>
             /\ reqs'[r].user = reqs[r].user
             /\ IF reqs[r].user # None /\ reqs[r].user[1].role = "admin"
                THEN /\ InLog(reqs'[r], "isAdmin:next")
                     /\ reqs'[r].service
                     /\ reqs'[r].pc = "handler"
                     /\ reqs'[r].nextErr = None
                ELSE /\ ~InLog(reqs'[r], "isAdmin:next")
                     /\ ~reqs'[r].service
                     /\ reqs'[r].pc = "done"
                     /\ reqs'[r].status = 403
                     /\ reqs'[r].nextErr =
                            Some(CustomError("Admin access required", 403))]_vars

C9_Witness ==
    \E r1, r2 \in ReqIds :
        /\ Req(r1).user # None
        /\ Req(r1).user[1].role = "Admin"
        /\ Req(r1).status = 403
        /\ Req(r2).user # None
        /\ Req(r2).user[1].role = "admin"
        /\ Req(r2).service

\* --------------------------------------------------------------- C10
AdminOnly(q) == q.route.area \in Resources /\ q.route.op \in AdminOps

\* the request passed the auth middleware and the role middleware, in that
\* order, with a token that verifies and carries the role admin
PassedBoth(q) ==
    /\ Truthy(q.cookie)
    /\ ~q.listedAtLookup
    /\ WouldVerify(q.cookie[1])
    /\ q.cookie[1].claims.role = "admin"
    /\ q.user = Some(Decoded(q.cookie[1]))
    /\ Len(q.log) >= 4
    /\ SubSeq(q.log, 1, 4) = <<"findOne", "verifyJwt", "next", "isAdmin:next">>

\* C10: on the admin-only routes of protocols, offers and invitations the
\* service is reached only by a request that passed the auth middleware and
\* then the role middleware, and only such a request changes the stored
\* records.
C10_AdminRoutesGated ==
    [][/\ \A r \in ReqIds :
             (AdminOnly(reqs'[r]) /\ reqs'[r].service) => PassedBoth(reqs'[r])
       /\ store' # store
          => \E r \in ReqIds :
                 /\ AdminOnly(reqs[r])
                 /\ reqs[r].pc = "handler"
                 /\ PassedBoth(reqs[r])
                 /\ reqs'[r].pc = "done"]_vars

C10_Witness ==
    \E r \in ReqIds :
        /\ Req(r).route = [area |-> "offers", op |-> "delete"]
        /\ Req(r).cookie = Some(UserToken)
        /\ Req(r).pc = "done"
        /\ Req(r).status = 403
        /\ ~Req(r).service
        /\ store["offers"]["d1"] # ""
        /\ AdminToken \in revoked

\* --------------------------------------------------------------- C11
\* C11: the role middleware decides by the role in the refresh token the
\* request presents, whatever the role of that user in the store is now; and
\* a token handed out carries the role the user has in the store at that
\* moment, so only a login after the change yields a token with the new role.
C11_RoleFromToken ==
    [][/\ \A r \in ReqIds :
             (AdminOnly(reqs'[r]) /\ InLog(reqs'[r], "next"))
             => IF reqs'[r].cookie[1].claims.role = "admin"
                THEN InLog(reqs'[r], "isAdmin:next") /\ reqs'[r].status # 403
                ELSE /\ ~InLog(reqs'[r], "isAdmin:next")
                     /\ reqs'[r].status = 403
                     /\ ~reqs'[r].service
       /\ \A t \in issued' \ issued :
             \E u \in users' :
                 /\ u._id = t.claims._id
                 /\ u.email = t.claims.email
                 /\ u.role = t.claims.role]_vars

C11_Witness ==
    \E r \in ReqIds :
        /\ AdminOnly(Req(r))
        /\ Req(r).pc = "done"
        /\ Req(r).status = 403
        /\ InLog(Req(r), "next")
        /\ Req(r).cookie[1].claims.role = "user"
        /\ \E u \in users : u._id = Req(r).cookie[1].claims._id /\ u.role = "admin"
        /\ \E t \in issued : t.claims.role = "admin"

\* --------------------------------------------------------------- C12
\* C12: as long as no role is changed in the store, every stored user has
\* role "user", every token handed out or set in a cookie carries role "user",
\* and no identity with role "admin" is attached to a request.
C12_NoAdminFromAuthRoutes ==
    /\ \A u \in users : u.role = "user"
    /\ \A t \in issued : t.claims.role = "user"
    /\ \A r \in ReqIds :
          /\ Req(r).setCookie # None => Req(r).setCookie[1].claims.role = "user"
          /\ (Req(r).resBody # None /\ "accessToken" \in DOMAIN Req(r).resBody[1])
             => Req(r).resBody[1].accessToken.claims.role = "user"
          /\ Req(r).user # None => Req(r).user[1].role = "user"

C12_Witness ==
    /\ users # {}
    /\ \E r \in ReqIds :
          /\ Req(r).route = AuthRoute("refresh")
          /\ Req(r).pc = "done"
          /\ Req(r).status = 200
          /\ Req(r).resBody[1].accessToken.claims.role = "user"

\* --------------------------------------------------------------- C13
\* C13: a register whose email belongs to a stored user when its lookup runs
\* ends with 409 "This email already registered!"; the step creates and
\* changes no user and signs no token.
C13_DuplicateEmailIs409 ==
    [][\A r \in ReqIds :
          (/\ reqs[r].route = AuthRoute("register")
           /\ reqs[r].pc = "handler"
           /\ reqs'[r] # reqs[r]
           /\ \E u \in users : u.email = reqs[r].body.email)
          => /\ reqs'[r].pc = "done"
             /\ reqs'[r].nextErr =
                    Some(CustomError("This email already registered!", 409))
             /\ reqs'[r].status = 409
             /\ reqs'[r].setCookie = None
             /\ reqs'[r].resBody = None
             /\ users' = users
             /\ issued' = issued]_vars

C13_Witness ==
    \E r \in ReqIds :
        /\ Req(r).route = AuthRoute("register")
        /\ Req(r).pc = "done"
        /\ Req(r).status = 409
        /\ Cardinality(users) = 1
        /\ \E u \in users : u.password # Hash(Req(r).body.password)

\* --------------------------------------------------------------- C14
\* C14: the users hold at most one user per email, also when two registers
\* with the same email both pass the lookup before either inserts.
C14_EmailUnique ==
    \A u1, u2 \in users : u1.email = u2.email => u1 = u2

C14_Witness ==
    \E r \in ReqIds :
        /\ Req(r).route = AuthRoute("register")
        /\ Req(r).pc = "done"
        /\ Req(r).nextErr = Some(PlainError("E11000 duplicate key"))
        /\ Cardinality(users) = 1

\* --------------------------------------------------------------- C15
\* C15: a login with an email no user has ends with 404 without a password
\* comparison; a login with a password that does not match the stored hash
\* ends with 401; neither signs a token, sets a cookie or changes what is
\* stored.
C15_LoginFailures ==
    [][\A r \in ReqIds :
          (/\ reqs[r].route = AuthRoute("login")
           /\ reqs[r].pc = "handler"
           /\ reqs'[r] # reqs[r])
          => LET stored == {u \in users : u.email = reqs[r].body.email}
                 frame == /\ users' = users
                          /\ issued' = issued
                          /\ denylist' = denylist
                          /\ reqs'[r].setCookie = None
                          /\ reqs'[r].resBody = None
                          /\ reqs'[r].pc = "done"
             IN /\ stored = {}
                   => /\ reqs'[r].nextErr =
                             Some(CustomError("User does not exist!", 404))
                      /\ reqs'[r].status = 404
                      /\ ~InLog(reqs'[r], "compare")
                      /\ frame
                /\ (stored # {}
                    /\ \A u \in stored : u.password # <<"bcrypt", reqs[r].body.password>>)
                   => /\ reqs'[r].nextErr =
                             Some(CustomError("Password does not match!", 401))
                      /\ reqs'[r].status = 401
                      /\ InLog(reqs'[r], "compare")
                      /\ frame]_vars

C15_Witness ==
    \E r \in ReqIds :
        /\ Req(r).route = AuthRoute("login")
        /\ Req(r).pc = "done"
        /\ Req(r).status = 401
        /\ Req(r).log = <<"service", "compare", "next(err)">>
        /\ env.JWT_REFRESH_SECRET # "" /\ env.JWT_SECRET # ""
        /\ issued # {}

\* --------------------------------------------------------------- C16
\* the response carries a token pair: two tokens, not the same
PairReturned(q) ==
    /\ q.status = 201
    /\ q.nextErr = None
    /\ q.resBody # None
    /\ q.setCookie # None
    /\ q.resBody[1].accessToken.form = "jwt"
    /\ q.setCookie[1].form = "jwt"
    /\ q.resBody[1].accessToken # q.setCookie[1]

\* the insert of register, for an email no user has, and the login that
\* follows a register with the same credentials, both return a pair
RegisterThenLoginSucceed(r) ==
    /\ (/\ reqs[r].route = AuthRoute("register")
        /\ reqs[r].pc = "handler"
        /\ reqs'[r] # reqs[r]
        /\ \A u \in users : u.email # reqs[r].body.email)
       => reqs'[r].pc = "createUser"
    /\ (/\ reqs[r].pc = "createUser"
        /\ reqs'[r] # reqs[r]
        /\ \A u \in users : u.email # reqs[r].body.email)
       => PairReturned(reqs'[r])
    /\ (reqs'[r].follows /\ reqs'[r].pc = "done")
       => PairReturned(reqs'[r])

\* C16 as stated: for valid credentials with an email no user has, register
\* returns a token pair of two distinct tokens, and so does the login with
\* the same credentials right after it.
C16_RegisterThenLogin ==
    [][\A r \in ReqIds : RegisterThenLoginSucceed(r)]_vars

\* C16 amended: the same, in a process that has both secrets configured.
C16_RegisterThenLoginConfigured ==
    [][(env.JWT_SECRET # "" /\ env.JWT_REFRESH_SECRET # "")
       => \A r \in ReqIds : RegisterThenLoginSucceed(r)]_vars

C16_Witness ==
    \E r \in ReqIds :
        /\ Req(r).follows
        /\ Req(r).pc = "done"
        /\ PairReturned(Req(r))
        /\ Req(r).log = <<"service", "compare">>

\* --------------------------------------------------------------- C17
ConfigError == CustomError("JWT secret is not configured!", 500)

\* the step of the request in slot r calls createAccessTokens
IssuanceStep(r) ==
    /\ reqs'[r] # reqs[r]
    /\ \/ /\ reqs[r].pc = "createUser"
          /\ \A u \in users : u.email # reqs[r].body.email
       \/ /\ reqs[r].pc = "handler"
          /\ reqs[r].route = AuthRoute("login")
          /\ \E u \in users : /\ u.email = reqs[r].body.email
                              /\ u.password = <<"bcrypt", reqs[r].body.password>>
       \/ /\ reqs[r].pc = "handler"
          /\ reqs[r].route = AuthRoute("refresh")

\* C17: with the access secret or the refresh secret unset, issuance fails
\* with 500 "JWT secret is not configured!" and no token is signed: none is
\* handed out, set in a cookie or put in the body. A response never carries
\* one token of a pair without the other.
C17_IssuanceNeedsBothSecrets ==
    [][\A r \in ReqIds :
          /\ (IssuanceStep(r) /\ (env.JWT_SECRET = "" \/ env.JWT_REFRESH_SECRET = ""))
             => /\ reqs'[r].pc = "done"
                /\ reqs'[r].nextErr = Some(ConfigError)
                /\ reqs'[r].status = 500
                /\ reqs'[r].setCookie = None
                /\ reqs'[r].resBody = None
                /\ issued' = issued
          /\ reqs'[r].route \in {AuthRoute("register"), AuthRoute("login")}
             => (reqs'[r].setCookie # None <=> reqs'[r].resBody # None)]_vars

C17_Witness ==
    \E r \in ReqIds :
        /\ Req(r).route = AuthRoute("refresh")
        /\ Req(r).isAuthenticated
        /\ Req(r).pc = "done"
        /\ Req(r).nextErr = Some(ConfigError)
        /\ env.JWT_SECRET = ""
        /\ env.JWT_REFRESH_SECRET # ""

\* --------------------------------------------------------------- C18
\* the identity passed to issuance by the finished request q
IssuedFor(q) ==
    IF q.route = AuthRoute("refresh")
    THEN Claims(q.user[1]._id, q.user[1].email, q.user[1].role)
    ELSE LET u == CHOOSE u \in users : u.email = q.body.email
         IN Claims(u._id, u.email, u.role)

\* the finished request q returned tokens
Issued(q) ==
    /\ q.pc = "done"
    /\ q.route \in {AuthRoute("register"), AuthRoute("login"), AuthRoute("refresh")}
    /\ q.resBody # None

\* C18 as stated: verifying the access token with the access secret and the
\* refresh token with the refresh secret returns exactly the claims
\* {_id, email, role} passed to issuance.
C18_RoundTripExact ==
    \A r \in ReqIds :
        Issued(Req(r))
        => /\ verifyJwt(Req(r).resBody[1].accessToken, env.JWT_SECRET, now).decoded
                = Some(IssuedFor(Req(r)))
           /\ Req(r).setCookie # None
              => verifyJwt(Req(r).setCookie[1], env.JWT_REFRESH_SECRET, now).decoded
                    = Some(IssuedFor(Req(r)))

\* what verification returns for token tok is the identity c together with
\* the time of issue and the expiry
RoundTrip(tok, secret, c, lifetime) ==
    LET res == verifyJwt(tok, secret, now)
    IN /\ res.err = None
       /\ DOMAIN res.decoded[1] = {"_id", "email", "role", "iat", "exp"}
       /\ res.decoded[1]._id = c._id
       /\ res.decoded[1].email = c.email
       /\ res.decoded[1].role = c.role
       /\ res.decoded[1].iat = now
       /\ res.decoded[1].exp = now + lifetime

\* C18 amended: verifying each token of the pair with its own secret returns
\* the claims {_id, email, role} passed to issuance together with iat and
\* exp, the time of issue and the expiry.
C18_RoundTripClaims ==
    \A r \in ReqIds :
        Issued(Req(r))
        => /\ RoundTrip(Req(r).resBody[1].accessToken, env.JWT_SECRET,
                        IssuedFor(Req(r)), AccessLifetime)
           /\ Req(r).setCookie # None
              => RoundTrip(Req(r).setCookie[1], env.JWT_REFRESH_SECRET,
                           IssuedFor(Req(r)), RefreshLifetime)

C18_Witness ==
    \E r \in ReqIds :
        /\ Issued(Req(r))
        /\ Req(r).route = AuthRoute("login")
        /\ now > 0
        /\ env.JWT_SECRET # env.JWT_REFRESH_SECRET
        /\ RoundTrip(Req(r).setCookie[1], env.JWT_REFRESH_SECRET,
                     IssuedFor(Req(r)), RefreshLifetime)

\* --------------------------------------------------------------- C19
\* C19: a request that presents an access token in the refreshToken cookie
\* never passes the auth middleware.
C19_AccessTokenNeverPasses ==
    \A r \in ReqIds :
        (/\ Req(r).cookie # None
         /\ Req(r).cookie[1] \in AccessTokens
         /\ Req(r).cookie[1] \notin issued)
        => /\ ~Req(r).isAuthenticated
           /\ Req(r).user = None
           /\ ~Req(r).service

\* --------------------------------------------------------------- C20
\* C20: the body of a register, login or refresh response holds the access
\* token and nothing else, and that token is no refresh token; a refresh
\* token is sent only as the refreshToken cookie, set HttpOnly, Secure,
\* SameSite=None with a max-age of 7 days, by register and login.
C20_RefreshTokenOnlyInCookie ==
    \A r \in ReqIds :
        Req(r).route \in {AuthRoute("register"), AuthRoute("login"), AuthRoute("refresh")}
        => /\ Req(r).resBody # None
              => /\ DOMAIN Req(r).resBody[1] = {"accessToken"}
                 /\ Req(r).resBody[1].accessToken \notin issued
                 /\ Req(r).resBody[1].accessToken.exp
                        = Req(r).resBody[1].accessToken.iat + AccessLifetime
           /\ Req(r).setCookie # None
              => /\ Req(r).route # AuthRoute("refresh")
                 /\ Req(r).setCookie[1] \in issued
                 /\ Req(r).setCookie[1].exp = Req(r).setCookie[1].iat + RefreshLifetime
                 /\ Req(r).cookieOptions =
                        Some([httpOnly |-> TRUE, secure |-> TRUE,
                              sameSite |-> "none", maxAge |-> 7])

C20_Witness ==
    \E r1, r2 \in ReqIds :
        /\ Req(r1).route = AuthRoute("login")
        /\ Req(r1).pc = "done"
        /\ Req(r1).setCookie # None
        /\ Req(r1).resBody # None
        /\ env.JWT_SECRET = env.JWT_REFRESH_SECRET
        /\ Req(r2).route = AuthRoute("refresh")
        /\ Req(r2).pc = "handler"

\* --------------------------------------------------------------- C21
\* C21: a logout request whose cookie T passed the auth middleware is answered
\* 200 with a message, T is in the denylist from then on and the cookie is
\* cleared; a logout request without the cookie is answered 401, never
\* reaches the logout service and leaves the denylist as it is.
C21_Logout ==
    [][\A r \in ReqIds :
          reqs'[r].route = AuthRoute("logout")
          => /\ (reqs[r].pc = "handler" /\ reqs'[r] # reqs[r])
                => /\ InLog(reqs[r], "next")
                   /\ reqs'[r].pc = "done"
                   /\ reqs'[r].status = 200
                   /\ reqs'[r].resBody = Some([message |-> "Logged out successfully"])
                   /\ reqs'[r].cleared
                   /\ reqs'[r].log[Len(reqs'[r].log)] = "clearCookie"
                   /\ \E d \in denylist' : d.token = reqs'[r].cookie[1]
             /\ (reqs'[r].pc = "done" /\ reqs'[r].status = 200)
                => \E d \in denylist' : d.token = reqs'[r].cookie[1]
             /\ (InLog(reqs'[r], "next") /\ reqs'[r].pc = "done")
                => reqs'[r].status = 200
             /\ (~Truthy(reqs'[r].cookie) /\ reqs'[r].pc # "idle")
                => /\ reqs'[r].pc = "done"
                   /\ reqs'[r].status = 401
                   /\ ~reqs'[r].service
                   /\ reqs[r].pc = "idle" => denylist' = denylist]_vars

C21_Witness ==
    \E r1, r2 \in ReqIds :
        /\ Req(r1).route = AuthRoute("logout")
        /\ Req(r1).pc = "done"
        /\ Req(r1).status = 200
        /\ Req(r1).cleared
        /\ \E d \in denylist : d.token = Req(r1).cookie[1]
        /\ Req(r2).route = AuthRoute("logout")
        /\ Req(r2).pc = "handler"
        /\ Req(r2).cookie = Req(r1).cookie

\* --------------------------------------------------------------- C22
\* What the auth middleware makes of a request carrying the cookie, the lookup
\* resolving against the denylist as it is.
AuthOutcome(cookie) ==
    LET q0 == AuthEnter([IdleReq EXCEPT !.cookie = cookie])
        q1 == IF q0.pc = "findOne"
              THEN AuthAfterFindOne(q0, FALSE, findOne(q0.token[1]))
              ELSE q0
        q2 == IF q1.pc = "verifyJwt"
              THEN AuthAfterVerify(q1, verifyJwt(q1.token[1], q1.secret, now))
              ELSE q1
    IN q2

ServiceLogoutStep(r) ==
    reqs[r].pc = "idle" /\ reqs'[r].route = ServiceCall("logout")

\* C22 as stated: the logout service inserts a denylist entry for whatever
\* string it is given.
C22_AnyStringListed ==
    [][\A r \in ReqIds :
          ServiceLogoutStep(r)
          => \E d \in denylist' : d.token = reqs'[r].token[1]]_vars

\* C22: the logout service inserts a denylist entry for whatever non-empty
\* string it is given, whether or not the string verifies, has expired or is
\* listed already; from then on the middleware refuses that string, and its
\* outcome for every other cookie is what it was; applied to a string that is
\* listed already it changes the middleware's outcome for no cookie.
C22_NonEmptyStringListed ==
    [][\A r \in ReqIds :
       \A T \in issued \cup {ForgedToken} :
          (ServiceLogoutStep(r) /\ reqs'[r].token = Some(T))
          =>    /\ reqs'[r].nextErr = None
                /\ [token |-> T, createdAt |-> now] \in denylist'
                /\ denylist \subseteq denylist'
                /\ AuthOutcome(Some(T))'.status = 403
                /\ \A c \in Cookies \ {Some(T)} :
                       AuthOutcome(c)' = AuthOutcome(c)
                /\ (\E d \in denylist : d.token = T)
                   => \A c \in Cookies : AuthOutcome(c)' = AuthOutcome(c)]_vars

\* The service was applied a second time, a day later, to a token that has
\* expired or was never signed by this server: both entries are there.
C22_Witness ==
    \E r \in ReqIds :
        /\ Req(r).route = ServiceCall("logout")
        /\ Req(r).pc = "done"
        /\ Req(r).nextErr = None
        /\ LET T == Req(r).token[1]
           IN /\ verifyJwt(T, "k1", now).err # None
              /\ \E d1, d2 \in denylist :
                    /\ d1.token = T /\ d2.token = T
                    /\ d1.createdAt < d2.createdAt

\* --------------------------------------------------------------- C23
\* the handler of POST /refresh runs on the request in slot r
RefreshStep(r) ==
    /\ reqs[r].route = AuthRoute("refresh")
    /\ reqs[r].pc = "handler"
    /\ reqs'[r] # reqs[r]

\* the answer to a refresh: 200, a body of the access token alone, whose
\* claims are those of the refresh token presented
RefreshAnswer(q) ==
    /\ q.status = 200
    /\ q.resBody # None
    /\ DOMAIN q.resBody[1] = {"accessToken"}
    /\ q.resBody[1].accessToken.form = "jwt"
    /\ q.resBody[1].accessToken.claims = q.cookie[1].claims
    /\ q.resBody[1].accessToken.key = env.JWT_SECRET
    /\ q.resBody[1].accessToken # q.cookie[1]

\* a refresh leaves the cookie, the denylist, the users and the refresh
\* tokens in circulation as they are
RefreshFrame(r) ==
    /\ reqs'[r].setCookie = None
    /\ ~reqs'[r].cleared
    /\ denylist' = denylist
    /\ users' = users
    /\ issued' = issued

\* a refresh the auth middleware failed: the middleware's error, nothing else
RefreshRefused(q) ==
    (q.route = AuthRoute("refresh") /\ AuthFailed(q))
    => /\ q.status = ErrorStatus(q.nextErr[1])
       /\ q.resBody = None
       /\ q.setCookie = None
       /\ ~q.service

\* C23 as stated: every refresh request that passes the auth middleware is
\* answered 200 with a new access token carrying the claims of the refresh
\* token presented, sets no cookie and changes neither denylist nor users; a
\* refresh request the middleware fails gets that failure and no token.
C23_Refresh ==
    [][\A r \in ReqIds :
          /\ RefreshStep(r)
             => /\ InLog(reqs[r], "next")
                /\ RefreshAnswer(reqs'[r])
                /\ RefreshFrame(r)
          /\ RefreshRefused(reqs'[r])]_vars

\* C23 amended: the same when the access secret is configured; with
\* JWT_SECRET unset the refresh that passed the middleware is answered 500
\* "JWT secret is not configured!" with no token, and changes nothing either.
C23_RefreshConfigured ==
    [][\A r \in ReqIds :
          /\ RefreshStep(r)
             => /\ InLog(reqs[r], "next")
                /\ RefreshFrame(r)
                /\ reqs'[r].pc = "done"
                /\ IF env.JWT_SECRET # ""
                   THEN RefreshAnswer(reqs'[r])
                   ELSE /\ reqs'[r].nextErr =
                              Some(CustomError("JWT secret is not configured!", 500))
                        /\ reqs'[r].status = 500
                        /\ reqs'[r].resBody = None
          /\ RefreshRefused(reqs'[r])]_vars

\* A refresh answered on the last day of the refresh token's life, by a
\* process restarted with another access secret than the one of the login.
C23_Witness ==
    \E r \in ReqIds :
        /\ Req(r).route = AuthRoute("refresh")
        /\ Req(r).pc = "done"
        /\ RefreshAnswer(Req(r))
        /\ Req(r).resBody[1].accessToken.iat = Req(r).cookie[1].exp - 1
        /\ Req(r).setCookie = None
        /\ denylist # {}

\* --------------------------------------------------------------- C24
\* The status the taxonomy gives to a failure, by what failed.
TaxonomyStatus(err) ==
    CASE err.message = "validation" -> 400
      [] err.message = "This email already registered!" -> 409
      [] err.message \in {"Missing token!", "No refresh token provided",
                          "Password does not match!"} -> 401
      [] err.message \in {"jwt malformed", "invalid signature", "jwt expired"} -> 401
      [] err.message \in {"Invalid token!", "Admin access required"} -> 403
      [] err.message \in {"User does not exist!",
                          "There is no user with this id!"} -> 404
      [] OTHER -> 500

\* C24: every failure is answered with the status of its class: 400
\* validation, 409 duplicate email, 401 missing cookie, wrong password or a
\* refresh token that fails verification, 403 denylisted token or insufficient
\* role, 404 unknown user, 500 missing secret or store or signing failure.
C24_TaxonomyStatus ==
    \A r \in ReqIds :
        (Req(r).pc = "done" /\ Req(r).nextErr # None)
        => Req(r).status = TaxonomyStatus(Req(r).nextErr[1])

\* --------------------------------------------------------------- C25
ErrorHandlerStep(r) == reqs[r].pc = "errorHandler" /\ reqs'[r] # reqs[r]

\* with the headers sent: nothing written, the same error forwarded
Forwarded(r) ==
    /\ reqs'[r].forwarded = reqs[r].nextErr
    /\ reqs'[r].sent = reqs[r].sent
    /\ reqs'[r].status = reqs[r].status
    /\ reqs'[r].errBody = reqs[r].errBody

\* one JSON response {message}, nothing forwarded
OneJson(r) ==
    /\ reqs'[r].sent = 1
    /\ reqs'[r].errBody # None
    /\ DOMAIN reqs'[r].errBody[1] = {"message"}
    /\ reqs'[r].forwarded = None

StatusOf(err) ==
    IF err.statusCode # 0 THEN err.statusCode
    ELSE IF err.status # 0 THEN err.status
    ELSE 500

\* C25 as stated: the error handler sends exactly one JSON response {message}
\* per error, with status err.statusCode if set, else err.status if set, else
\* 500; with the headers already sent it writes nothing and forwards the same
\* error to the next handler.
C25_StatusPrecedence ==
    [][\A r \in ReqIds :
          ErrorHandlerStep(r)
          => IF reqs[r].headersSent
             THEN Forwarded(r)
             ELSE /\ OneJson(r)
                  /\ reqs'[r].status = StatusOf(reqs[r].nextErr[1])]_vars

\* C25 amended: the same, except that multer's LIMIT_FILE_SIZE error is
\* answered 413 whatever statusCode and status it carries.
C25_StatusPrecedenceBut413 ==
    [][\A r \in ReqIds :
          ErrorHandlerStep(r)
          => IF reqs[r].headersSent
             THEN Forwarded(r)
             ELSE /\ OneJson(r)
                  /\ reqs'[r].status =
                        IF reqs[r].nextErr[1].code = "LIMIT_FILE_SIZE" THEN 413
                        ELSE StatusOf(reqs[r].nextErr[1])]_vars

\* An error carrying both fields was answered with its statusCode.
C25_Witness ==
    \E r \in ReqIds :
        /\ Req(r).pc = "done"
        /\ Req(r).nextErr # None
        /\ Req(r).nextErr[1].statusCode = 409
        /\ Req(r).nextErr[1].status = 403
        /\ Req(r).nextErr[1].code = ""
        /\ Req(r).status = 409
        /\ Req(r).sent = 1
        /\ Req(r).forwarded = None

\* --------------------------------------------------------------- C26
FileCall(q) == q.route.area = "service" /\ q.route.op \in FileOps

\* C26: editWithFile and removeAndRemoveFromGCS with an id no record has fail
\* with a 404 error without a call to deleteFile or uploadFile and without a
\* change to a record; with a record whose file is in the bucket, deleteFile
\* is called before uploadFile and before the record is updated or removed,
\* and no call is made to object storage by a service call that found no
\* record.
C26_NotFoundBeforeStorage ==
    [][\A r \in ReqIds :
          /\ (FileCall(reqs[r]) /\ reqs[r].pc = "findById" /\ reqs'[r] # reqs[r]
              /\ Invite(reqs[r].body.id) = "")
             => /\ reqs'[r].pc = "done"
                /\ reqs'[r].nextErr # None
                /\ reqs'[r].nextErr[1].statusCode = 404
                /\ reqs'[r].log = <<"findById">>
                /\ store' = store
          /\ (FileCall(reqs'[r]) /\ reqs'[r].filePath # "")
             => /\ InLog(reqs'[r], "uploadFile")
                   => Before(reqs'[r], "deleteFile", "uploadFile")
                /\ InLog(reqs'[r], "findByIdAndUpdate")
                   => /\ Before(reqs'[r], "deleteFile", "findByIdAndUpdate")
                      /\ Before(reqs'[r], "uploadFile", "findByIdAndUpdate")
                /\ InLog(reqs'[r], "findByIdAndDelete")
                   => Before(reqs'[r], "deleteFile", "findByIdAndDelete")
          /\ (FileCall(reqs[r]) /\ store'["invitations"] # store["invitations"]
              /\ reqs'[r] # reqs[r] /\ reqs[r].filePath # "")
             => InLog(reqs[r], "deleteFile")]_vars

\* One caller was refused with 404 for an unknown id while another, whose
\* record had a file in the bucket, has deleted the file, uploaded the new one
\* and awaits the update of the record.
C26_Witness ==
    \E r1, r2 \in ReqIds :
        /\ FileCall(Req(r1))
        /\ Req(r1).body.id = "d2"
        /\ Req(r1).pc = "done"
        /\ Req(r1).nextErr # None
        /\ Req(r1).nextErr[1].statusCode = 404
        /\ Req(r2).route = ServiceCall("editWithFile")
        /\ Req(r2).pc = "findByIdAndUpdate"
        /\ Req(r2).filePath = "old.pdf"
        /\ Req(r2).log = <<"findById", "deleteFile", "uploadFile", "findByIdAndUpdate">>

\* --------------------------------------------------------------- C27
\* the calls of next the request's log holds
NextCalls(q) ==
    Cardinality({i \in 1..Len(q.log) : q.log[i] \in {"next", "next(err)"}})

\* C27: every invocation of the auth middleware, with or without a cookies
\* map, whatever the token, the lookup and the verifier do, ends having called
\* the next stage exactly once: with no argument on success or with one error
\* on failure.
C27_NextExactlyOnce ==
    [][\A r \in ReqIds :
          (AuthMiddlewareStep(r) /\ reqs'[r].pc \notin {"findOne", "verifyJwt"})
          => /\ NextCalls(reqs'[r]) = 1
             /\ InLog(reqs'[r], "next") <=> reqs'[r].nextErr = None
             /\ InLog(reqs'[r], "next(err)") <=> reqs'[r].nextErr # None]_vars

\* --------------------------------------------------------------- C28
\* the logout in slot r passed the auth middleware with the token tok: the
\* cookie was there, the lookup did not find it in the denylist, and it
\* verifies now
PassedWith(q, tok) ==
    /\ q.route = AuthRoute("logout")
    /\ q.cookie = Some(tok)
    /\ Before(q, "findOne", "verifyJwt")
    /\ Before(q, "verifyJwt", "next")
    /\ ~q.listedAtLookup
    /\ q.isAuthenticated
    /\ WouldVerify(tok)

\* C28: over HTTP an entry enters the denylist only by the handler of a
\* logout request that passed the auth middleware with that token: present,
\* not denylisted at the lookup, verified; a logout request whose token is
\* expired, forged or denylisted at the lookup ends without a new entry.
C28_ListedOnlyAfterAuth ==
    [][/\ \A d \in denylist' \ denylist :
             \E r \in ReqIds :
                /\ reqs[r].pc = "handler"
                /\ reqs'[r].pc = "done"
                /\ PassedWith(reqs[r], d.token)
                /\ d.createdAt = now
       /\ \A r \in ReqIds :
             (/\ reqs'[r].route = AuthRoute("logout")
              /\ reqs'[r].pc = "done"
              /\ reqs'[r] # reqs[r]
              /\ \/ ~Truthy(reqs'[r].cookie)
                 \/ ~WouldVerify(reqs'[r].cookie[1])
                 \/ reqs'[r].listedAtLookup)
             => /\ denylist' = denylist
                /\ reqs'[r].status # 200
                /\ ~reqs'[r].service]_vars

\* A logout with an expired token has been refused by the verifier, and the
\* denylist holds the one entry of an earlier logout that passed.
C28_Witness ==
    \E r \in ReqIds, d \in denylist :
        /\ denylist = {d}
        /\ d.token \in issued
        /\ Req(r).route = AuthRoute("logout")
        /\ Req(r).pc = "done"
        /\ Req(r).cookie # None
        /\ Req(r).cookie[1] \in issued
        /\ Req(r).cookie[1] # d.token
        /\ now >= Req(r).cookie[1].exp
        /\ Req(r).nextErr = Some(PlainError("jwt expired"))

\* --------------------------------------------------------------- C29
Listed(tok) == \E d \in denylist : d.token = tok

\* C29: with a logout of T running next to a request that carries T, a lookup
\* the store answers once T's entry is in the denylist ends the request with
\* 403; the request goes on to the verifier only if its lookup was answered
\* before the insert; and no request that arrives after the logout's response
\* is authenticated with T (no entry is purged in the span checked).
C29_LogoutRace ==
    [][\A r \in ReqIds :
          /\ (/\ reqs[r].pc = "findOne"
              /\ reqs'[r] # reqs[r]
              /\ reqs'[r].nextErr # Some(StoreError))
             => IF Listed(reqs[r].token[1])
                THEN /\ reqs'[r].pc = "done"
                     /\ reqs'[r].nextErr = Some(CustomError("Invalid token!", 403))
                     /\ reqs'[r].status = 403
                     /\ ~reqs'[r].isAuthenticated
                ELSE reqs'[r].nextErr # Some(CustomError("Invalid token!", 403))
          /\ (Guarded(reqs'[r]) /\ reqs'[r].isAuthenticated)
             => /\ ~reqs'[r].listedAtLookup
                /\ ~reqs'[r].revokedAtStart
          /\ (Guarded(reqs'[r]) /\ reqs'[r].revokedAtStart)
             => /\ reqs'[r].pc \in {"findOne", "done"}
                /\ reqs'[r].pc = "done"
                   => reqs'[r].nextErr \in {Some(StoreError),
                                            Some(CustomError("Invalid token!", 403))}]_vars

\* The logout of T has answered 200 while a request carrying T, whose lookup
\* was answered before the insert, awaits the verifier.
C29_Witness ==
    \E r1, r2 \in ReqIds :
        /\ Req(r1).route = AuthRoute("logout")
        /\ Req(r1).pc = "done"
        /\ Req(r1).status = 200
        /\ Req(r2).route = AuthRoute("profile")
        /\ Req(r2).cookie = Req(r1).cookie
        /\ Req(r2).pc = "verifyJwt"
        /\ ~Req(r2).listedAtLookup
        /\ Listed(Req(r2).token[1])

\* --------------------------------------------------------------- C30
\* C30: the logout of T revokes the string T and nothing else: what the auth
\* middleware makes of every other cookie, another refresh token of the same
\* user included, is the same after the logout as before; the users and the
\* tokens in circulation are unchanged, and the one entry added is T's.
C30_OnlyThatToken ==
    [][\A r \in ReqIds : \A T \in issued :
          (/\ reqs[r].route = AuthRoute("logout")
           /\ reqs[r].pc = "handler"
           /\ reqs[r].cookie = Some(T)
           /\ reqs'[r] # reqs[r])
          => /\ \A c \in Cookies \ {Some(T)} : AuthOutcome(c)' = AuthOutcome(c)
             /\ \A d \in denylist' \ denylist : d.token = T
             /\ denylist \subseteq denylist'
             /\ users' = users
             /\ issued' = issued
             /\ env' = env]_vars

\* After the logout of one refresh token of a user, a request with another
\* refresh token of the same user, issued before that logout, is authenticated.
C30_Witness ==
    \E r \in ReqIds, d \in denylist :
        /\ Req(r).route = AuthRoute("profile")
        /\ Req(r).isAuthenticated
        /\ Req(r).status = 200
        /\ Req(r).cookie[1] # d.token
        /\ Req(r).cookie[1].claims = d.token.claims
        /\ Req(r).cookie[1].iat < d.createdAt
        /\ d.token.iat <= d.createdAt
        /\ WouldVerify(d.token)

====
